---- MODULE Spec2Model ----
(***************************************************************************)
(* ShopPilot-Backend: the customer REST handlers (customerController), the *)
(* Customer and Order schemas, and the storage layer they run against.     *)
(*                                                                         *)
(* Every handler is an async function: it runs atomically up to an await,  *)
(* the awaited storage operation takes effect at one instant, and other    *)
(* requests' operations may take effect between two awaits of the same     *)
(* handler.  Each action below is one storage operation of a handler,      *)
(* together with the synchronous code that follows it up to the next       *)
(* storage operation or the response.                                      *)
(***************************************************************************)
EXTENDS Integers, Sequences, FiniteSets, TLC

VARIABLES
  customers,   \* the Customer collection: identity -> stored document
  nextId,      \* the next identity the storage layer hands out
  now,         \* the clock (Date.now), in days
  reqs,        \* the requests in flight: slot -> handler position and locals
  started,     \* the number of requests received so far
  resp,        \* the response sent last
  orders,      \* the Order collection, in insertion order
  change       \* a (current, previous) pair and the change string rendered for it

vars == <<customers, nextId, now, reqs, started, resp, orders, change>>
others == <<orders, change>>

(***************************************************************************)
(* Bounds of the model.                                                    *)
(***************************************************************************)
MaxSlots == 2        \* requests in flight at once
MaxCustomers == 2    \* identities the storage layer hands out
MaxRequests == 3     \* requests received in one behaviour
MaxTicks == 1        \* clock ticks in one behaviour
MaxOrders == 3       \* orders saved in one behaviour
MaxCount == 12       \* the small counts a change is rendered for

Week == 7
StartDay == 3 * Week

Slots == 1..MaxSlots
Ids == 1..MaxCustomers

(***************************************************************************)
(* Strings: String.prototype.toLowerCase and trim, as the schema's         *)
(* lowercase: true and trim: true setters apply them.                      *)
(***************************************************************************)
UpperChars == "ABCDEFGHIJKLMNOPQRSTUVWXYZ"
LowerChars == "abcdefghijklmnopqrstuvwxyz"

LowerChar(c) ==
  IF \E i \in 1..Len(UpperChars) : SubSeq(UpperChars, i, i) = c
  THEN LET i == CHOOSE j \in 1..Len(UpperChars) : SubSeq(UpperChars, j, j) = c
       IN  SubSeq(LowerChars, i, i)
  ELSE c

RECURSIVE toLowerCase(_)
toLowerCase(s) ==
  IF Len(s) = 0 THEN ""
  ELSE LowerChar(SubSeq(s, 1, 1)) \o toLowerCase(SubSeq(s, 2, Len(s)))

UpperChar(c) ==
  IF \E i \in 1..Len(LowerChars) : SubSeq(LowerChars, i, i) = c
  THEN LET i == CHOOSE j \in 1..Len(LowerChars) : SubSeq(LowerChars, j, j) = c
       IN  SubSeq(UpperChars, i, i)
  ELSE c

RECURSIVE toUpperCase(_)
toUpperCase(s) ==
  IF Len(s) = 0 THEN ""
  ELSE UpperChar(SubSeq(s, 1, 1)) \o toUpperCase(SubSeq(s, 2, Len(s)))

RECURSIVE trim(_)
trim(s) ==
  IF Len(s) = 0 THEN ""
  ELSE IF SubSeq(s, 1, 1) = " " THEN trim(SubSeq(s, 2, Len(s)))
  ELSE IF SubSeq(s, Len(s), Len(s)) = " " THEN trim(SubSeq(s, 1, Len(s) - 1))
  ELSE s

Digits == "0123456789"
IsDigit(c) == \E i \in 1..Len(Digits) : SubSeq(Digits, i, i) = c
DigitValue(c) == (CHOOSE i \in 1..Len(Digits) : SubSeq(Digits, i, i) = c) - 1

\* parseInt of a string that starts with a digit: the value of its leading digits.
RECURSIVE ParseDigits(_, _)
ParseDigits(s, acc) ==
  IF Len(s) = 0 \/ ~IsDigit(SubSeq(s, 1, 1)) THEN acc
  ELSE ParseDigits(SubSeq(s, 2, Len(s)), 10 * acc + DigitValue(SubSeq(s, 1, 1)))

parseInt(s) == ParseDigits(s, 0)

\* { $regex: search, $options: 'i' } for a search term without metacharacters.
RegexMatchI(str, search) ==
  \E i \in 1..(Len(str) - Len(search) + 1) :
     toLowerCase(SubSeq(str, i, i + Len(search) - 1)) = toLowerCase(search)

\* Number.prototype.toString of a non-negative integer.
RECURSIVE IntToString(_)
IntToString(n) ==
  IF n < 10 THEN SubSeq(Digits, n + 1, n + 1)
  ELSE IntToString(n \div 10) \o SubSeq(Digits, (n % 10) + 1, (n % 10) + 1)

\* Number.prototype.toString(36) of a non-negative integer.
RECURSIVE ToString36(_)
ToString36(n) ==
  LET digit(k) == SubSeq(Digits \o LowerChars, k + 1, k + 1) IN
  IF n < 36 THEN digit(n) ELSE ToString36(n \div 36) \o digit(n % 36)

\* The sum of f over a finite set.
RECURSIVE SumOver(_, _)
SumOver(S, f) ==
  IF S = {} THEN 0
  ELSE LET x == CHOOSE y \in S : TRUE IN f[x] + SumOver(S \ {x}, f)

Min(a, b) == IF a < b THEN a ELSE b
Max(a, b) == IF a > b THEN a ELSE b
\* Math.ceil(a / b) for a >= 0 and b >= 1.
Ceil(a, b) == (a + b - 1) \div b

(***************************************************************************)
(* Request bodies.  A body is a record holding the keys the request sent;  *)
(* a key that is absent reads as undefined.                                *)
(***************************************************************************)
Has(b, k) == k \in DOMAIN b
TruthyStr(b, k) == Has(b, k) /\ b[k] # ""
TruthyNum(b, k) == Has(b, k) /\ b[k] # 0

CreateBodies ==
  { [customerName |-> "Ann", email |-> "a@x.io", phone |-> "111"],
    [customerName |-> "Bob ", email |-> "B@X.io", phone |-> "222",
     ordersCount |-> 2, orderTotal |-> 50, customerSince |-> StartDay - 10,
     status |-> "inactive", abandonedCarts |-> 1],
    [customerName |-> "Cy", email |-> "a@x.io"],
    [customerName |-> "Cy", email |-> "a@x.io", phone |-> "333",
     status |-> "archived"],
    [customerName |-> "Cy", email |-> "b@x.io", phone |-> "333",
     ordersCount |-> -1],
    [customerName |-> "Cy", email |-> "cy.x.io", phone |-> "333"] }

UpdateBodies ==
  { [email |-> "a@x.io"],
    [customerName |-> "Dee", status |-> "inactive", ordersCount |-> 0],
    [status |-> "archived"],
    [abandonedCarts |-> -1] }

\* Query strings of GET /api/customers.
ListQueries ==
  { [other |-> "x"],
    [page |-> "2", limit |-> "1"],
    [page |-> "1", limit |-> "2", status |-> "active"],
    [page |-> "2", limit |-> "1", sortBy |-> "ordersCount", sortOrder |-> "asc"],
    [limit |-> "1", search |-> "ANN"] }

\* Query strings of GET /api/customers/summary.
SummaryQueries ==
  { [other |-> "x"], [timeframe |-> "MONTH"], [timeframe |-> "year"] }

StatusBodies ==
  { [status |-> "active"], [status |-> "inactive"],
    [status |-> "archived"], [other |-> "x"] }

\* The bodies sent while a list or a summary is computed: the two customers the schema
\* accepts and one it refuses, and the two valid status patches.
SummaryCreateBodies ==
  {b \in CreateBodies :
     (Has(b, "phone") /\ b.customerName \in {"Ann", "Bob "})
       \/ (Has(b, "status") /\ b.status = "archived")}

SummaryStatusBodies == {b \in StatusBodies : Has(b, "status") /\ b.status \in {"active", "inactive"}}

(***************************************************************************)
(* The Customer schema (models/Customer.js).                               *)
(***************************************************************************)
StatusEnum == {"active", "inactive"}

\* match: /^\w+([.-]?\w+)*@\w+([.-]?\w+)*(\.\w{2,3})+$/ on the addresses the
\* bodies use: "cy.x.io" has no @ and fails, the others match.
EmailMatch(e) == e \in {"a@x.io", "b@x.io"}

ApplySetters(d) ==
  [d EXCEPT !.customerName = trim(@), !.email = toLowerCase(@), !.phone = trim(@)]

\* A schema whose status has no enum.
ValidationErrorsNoEnum(d) ==
     (IF d.customerName = "" \/ Len(d.customerName) > 100 THEN {"customerName"} ELSE {})
  \cup (IF d.email = "" \/ ~EmailMatch(d.email) THEN {"email"} ELSE {})
  \cup (IF d.phone = "" THEN {"phone"} ELSE {})
  \cup (IF d.ordersCount < 0 THEN {"ordersCount"} ELSE {})
  \cup (IF d.orderTotal < 0 THEN {"orderTotal"} ELSE {})
  \cup (IF d.abandonedCarts < 0 THEN {"abandonedCarts"} ELSE {})

\* The paths of a document that fail the schema's validators.
ValidationErrors(d) ==
     (IF d.customerName = "" \/ Len(d.customerName) > 100 THEN {"customerName"} ELSE {})
  \cup (IF d.email = "" \/ ~EmailMatch(d.email) THEN {"email"} ELSE {})
  \cup (IF d.phone = "" THEN {"phone"} ELSE {})
  \cup (IF d.ordersCount < 0 THEN {"ordersCount"} ELSE {})
  \cup (IF d.orderTotal < 0 THEN {"orderTotal"} ELSE {})
  \cup (IF d.status \notin StatusEnum THEN {"status"} ELSE {})
  \cup (IF d.abandonedCarts < 0 THEN {"abandonedCarts"} ELSE {})

\* A collection whose email index is not unique.
NoUniqueIndex(coll, id, email) == FALSE

\* unique: true on email: the index refuses a write that would give the
\* document `id` an email another stored document holds (error code 11000).
UniqueViolation(coll, id, email) ==
  \E j \in DOMAIN coll : j # id /\ coll[j].email = email

\* Customer.findOne({ email }): the filter is cast by the schema, setters included.
FindOneByEmail(coll, email) ==
  \E j \in DOMAIN coll : coll[j].email = toLowerCase(email)

\* A delete whose filter matches every document.
RemoveAll(coll, id) == << >>

Remove(coll, id) == [j \in DOMAIN coll \ {id} |-> coll[j]]
Insert(coll, id, d) == [j \in DOMAIN coll \cup {id} |-> IF j = id THEN d ELSE coll[j]]

(***************************************************************************)
(* Requests.                                                               *)
(***************************************************************************)
Idle == [pc |-> "idle"]
IsIdle(r) == reqs[r].pc = "idle"

\* A request is taken by the lowest idle slot: slots are interchangeable.
CanStart(r) ==
  /\ started < MaxRequests
  /\ IsIdle(r)
  /\ \A q \in Slots : q < r => ~IsIdle(q)

Creating == {r \in Slots : reqs[r].pc = "create_write"}

Respond(op, code, message, path) ==
  [op |-> op, code |-> code, success |-> (code < 400), message |-> message, path |-> path]

Init ==
  /\ customers = << >>
  /\ nextId = 1
  /\ now = StartDay
  /\ reqs = [r \in Slots |-> Idle]
  /\ started = 0
  /\ resp = [op |-> "none"]
  /\ orders = << >>
  /\ change = [current |-> 0, previous |-> 0, text |-> ""]

Tick ==
  /\ now < StartDay + MaxTicks
  /\ now' = now + 1
  /\ UNCHANGED <<customers, nextId, reqs, started, resp, others>>

(***************************************************************************)
(* createCustomer: POST /api/customers                                     *)
(***************************************************************************)
\* Lines 225-251: the required-field check and the pre-check query.
CreateCustomerFind(r, body) ==
  /\ CanStart(r)
  /\ nextId + Cardinality(Creating) <= MaxCustomers
  /\ started' = started + 1
  /\ IF ~(TruthyStr(body, "customerName") /\ TruthyStr(body, "email") /\ TruthyStr(body, "phone"))
     THEN /\ resp' = Respond("createCustomer", 400,
                             "Customer name, email, and phone are required", "required")
          /\ UNCHANGED reqs
     ELSE IF FindOneByEmail(customers, body.email)
     THEN /\ resp' = Respond("createCustomer", 400,
                             "Customer with this email already exists", "precheck")
          /\ UNCHANGED reqs
     ELSE /\ reqs' = [reqs EXCEPT ![r] = [pc |-> "create_write", body |-> body]]
          /\ UNCHANGED resp
  /\ UNCHANGED <<customers, nextId, now, others>>

\* Lines 253-262.
customerData(body, today) ==
  [customerName |-> body.customerName,
   email |-> body.email,
   phone |-> body.phone,
   ordersCount |-> IF TruthyNum(body, "ordersCount") THEN body.ordersCount ELSE 0,
   orderTotal |-> IF TruthyNum(body, "orderTotal") THEN body.orderTotal ELSE 0,
   customerSince |-> IF TruthyNum(body, "customerSince") THEN body.customerSince ELSE today,
   status |-> IF TruthyStr(body, "status") THEN body.status ELSE "active",
   abandonedCarts |-> IF TruthyNum(body, "abandonedCarts") THEN body.abandonedCarts ELSE 0]

Stamp(d, created, updated) ==
  [k \in DOMAIN d \cup {"createdAt", "updatedAt"} |->
     IF k = "createdAt" THEN created ELSE IF k = "updatedAt" THEN updated ELSE d[k]]

\* Lines 253-286: Customer.create and the catch block.
CreateCustomerWrite(r) ==
  /\ reqs[r].pc = "create_write"
  /\ LET d == ApplySetters(customerData(reqs[r].body, now)) IN
     IF ValidationErrors(d) # {}
     THEN /\ resp' = Respond("createCustomer", 500, "Error creating customer", "ValidationError")
          /\ UNCHANGED <<customers, nextId>>
     ELSE IF UniqueViolation(customers, nextId, d.email)
     THEN /\ resp' = Respond("createCustomer", 400,
                             "Customer with this email already exists", "E11000")
          /\ UNCHANGED <<customers, nextId>>
     ELSE /\ customers' = Insert(customers, nextId, Stamp(d, now, now))
          /\ nextId' = nextId + 1
          /\ resp' = Respond("createCustomer", 201, "Customer created successfully", "created")
  /\ reqs' = [reqs EXCEPT ![r] = Idle]
  /\ UNCHANGED <<now, started, others>>

(***************************************************************************)
(* updateCustomer: PUT /api/customers/:id                                  *)
(***************************************************************************)
\* Lines 305-315: findById, then the choice of the next storage operation.
UpdateCustomerFind(r, id, body) ==
  /\ CanStart(r)
  /\ started' = started + 1
  /\ IF id \notin DOMAIN customers
     THEN /\ resp' = Respond("updateCustomer", 404, "Customer not found", "notfound")
          /\ UNCHANGED reqs
     ELSE /\ reqs' = [reqs EXCEPT ![r] =
                 [pc |-> IF TruthyStr(body, "email") /\ body.email # customers[id].email
                         THEN "update_check" ELSE "update_save",
                  id |-> id, body |-> body, customer |-> customers[id], setEmail |-> FALSE]]
          /\ UNCHANGED resp
  /\ UNCHANGED <<customers, nextId, now, others>>

\* Lines 316-323: the pre-check query for a changed email.
UpdateCustomerCheckEmail(r) ==
  /\ reqs[r].pc = "update_check"
  /\ IF FindOneByEmail(customers, reqs[r].body.email)
     THEN /\ resp' = Respond("updateCustomer", 400,
                             "Another customer with this email already exists", "precheck")
          /\ reqs' = [reqs EXCEPT ![r] = Idle]
     ELSE /\ reqs' = [reqs EXCEPT ![r].pc = "update_save", ![r].setEmail = TRUE]
          /\ UNCHANGED resp
  /\ UNCHANGED <<customers, nextId, now, started, others>>

\* Lines 323-333: the assignments to the loaded document.
Assigned(c, body, setEmail) ==
  [c EXCEPT
     !.email = IF setEmail THEN toLowerCase(body.email) ELSE @,
     !.customerName = IF TruthyStr(body, "customerName") THEN trim(body.customerName) ELSE @,
     !.phone = IF TruthyStr(body, "phone") THEN trim(body.phone) ELSE @,
     !.ordersCount = IF Has(body, "ordersCount") THEN body.ordersCount ELSE @,
     !.orderTotal = IF Has(body, "orderTotal") THEN body.orderTotal ELSE @,
     !.customerSince = IF TruthyNum(body, "customerSince") THEN body.customerSince ELSE @,
     !.status = IF TruthyStr(body, "status") THEN body.status ELSE @,
     !.abandonedCarts = IF Has(body, "abandonedCarts") THEN body.abandonedCarts ELSE @]

\* document.save() of a loaded document: the paths whose value changed are
\* written with $set, and timestamps: true adds updatedAt to them.
ModifiedPaths(loaded, d) == {k \in DOMAIN loaded : d[k] # loaded[k]}

\* A save that writes the whole loaded document back.
SaveWriteWhole(stored, d, paths, today) ==
  [k \in DOMAIN stored |-> IF k = "updatedAt" THEN today ELSE d[k]]

SaveWrite(stored, d, paths, today) ==
  [k \in DOMAIN stored |->
     IF k \in paths THEN d[k] ELSE IF k = "updatedAt" THEN today ELSE stored[k]]

\* The outcome of document.save(): the collection after it, and the error.
Save(coll, id, loaded, d, today) ==
  LET paths == ModifiedPaths(loaded, d) IN
  IF ValidationErrors(d) # {} THEN [coll |-> coll, error |-> "ValidationError"]
  ELSE IF id \notin DOMAIN coll THEN [coll |-> coll, error |-> "DocumentNotFoundError"]
  ELSE IF paths = {} THEN [coll |-> coll, error |-> "none"]
  ELSE IF "email" \in paths /\ UniqueViolation(coll, id, d.email)
  THEN [coll |-> coll, error |-> "E11000"]
  ELSE [coll |-> [coll EXCEPT ![id] = SaveWrite(@, d, paths, today)], error |-> "none"]

\* Lines 326-357: the assignments, save and the catch block.
UpdateCustomerSave(r) ==
  /\ reqs[r].pc = "update_save"
  /\ LET c == reqs[r].customer
         d == Assigned(c, reqs[r].body, reqs[r].setEmail)
         out == Save(customers, reqs[r].id, c, d, now)
     IN  /\ customers' = out.coll
         /\ resp' = IF out.error = "none"
                    THEN Respond("updateCustomer", 200, "Customer updated successfully", "updated")
                    ELSE IF out.error = "E11000"
                    THEN Respond("updateCustomer", 400, "Email already exists", "E11000")
                    ELSE Respond("updateCustomer", 500, "Error updating customer", out.error)
  /\ reqs' = [reqs EXCEPT ![r] = Idle]
  /\ UNCHANGED <<nextId, now, started, others>>

(***************************************************************************)
(* updateCustomerStatus: PATCH /api/customers/:id/status                   *)
(***************************************************************************)
\* Lines 395-411: the status check, then findById.
UpdateCustomerStatusFind(r, id, body) ==
  /\ CanStart(r)
  /\ started' = started + 1
  /\ IF ~TruthyStr(body, "status") \/ body.status \notin {"active", "inactive"}
     THEN /\ resp' = Respond("updateCustomerStatus", 400,
                             "Valid status (active or inactive) is required", "invalid")
          /\ UNCHANGED reqs
     ELSE IF id \notin DOMAIN customers
     THEN /\ resp' = Respond("updateCustomerStatus", 404, "Customer not found", "notfound")
          /\ UNCHANGED reqs
     ELSE /\ reqs' = [reqs EXCEPT ![r] =
                 [pc |-> "status_save", id |-> id, body |-> body, customer |-> customers[id]]]
          /\ UNCHANGED resp
  /\ UNCHANGED <<customers, nextId, now, others>>

\* Lines 413-428: the assignment, save and the catch block.
UpdateCustomerStatusSave(r) ==
  /\ reqs[r].pc = "status_save"
  /\ LET c == reqs[r].customer
         d == [c EXCEPT !.status = reqs[r].body.status]
         out == Save(customers, reqs[r].id, c, d, now)
     IN  /\ customers' = out.coll
         /\ resp' = IF out.error = "none"
                    THEN Respond("updateCustomerStatus", 200,
                                 "Customer status updated successfully", "updated")
                    ELSE Respond("updateCustomerStatus", 500,
                                 "Error updating customer status", out.error)
  /\ reqs' = [reqs EXCEPT ![r] = Idle]
  /\ UNCHANGED <<nextId, now, started, others>>

(***************************************************************************)
(* deleteCustomer: DELETE /api/customers/:id                               *)
(***************************************************************************)
\* Lines 365-372: findById.
DeleteCustomerFind(r, id) ==
  /\ CanStart(r)
  /\ started' = started + 1
  /\ IF id \notin DOMAIN customers
     THEN /\ resp' = Respond("deleteCustomer", 404, "Customer not found", "notfound")
          /\ UNCHANGED reqs
     ELSE /\ reqs' = [reqs EXCEPT ![r] = [pc |-> "delete_remove", id |-> id]]
          /\ UNCHANGED resp
  /\ UNCHANGED <<customers, nextId, now, others>>

\* Lines 374-379: findByIdAndDelete removes the document if it is still stored.
DeleteCustomerRemove(r) ==
  /\ reqs[r].pc = "delete_remove"
  /\ customers' = Remove(customers, reqs[r].id)
  /\ resp' = Respond("deleteCustomer", 200, "Customer deleted successfully", "deleted")
  /\ reqs' = [reqs EXCEPT ![r] = Idle]
  /\ UNCHANGED <<nextId, now, started, others>>

(***************************************************************************)
(* getAllCustomers: GET /api/customers                                     *)
(***************************************************************************)
\* Lines 9-15: the defaults of the query parameters.
PageNum(q) == IF Has(q, "page") THEN parseInt(q.page) ELSE 1
LimitNum(q) == IF Has(q, "limit") THEN parseInt(q.limit) ELSE 10
SortBy(q) == IF Has(q, "sortBy") THEN q.sortBy ELSE "customerSince"
SortDir(q) == IF Has(q, "sortOrder") /\ q.sortOrder # "desc" THEN 1 ELSE -1

\* A skip that forgets the first page.
SkipFromPageZero(pageNum, limitNum) == pageNum * limitNum

\* Line 35.
Skip(pageNum, limitNum) == (pageNum - 1) * limitNum

\* Lines 18-30: the documents the filter matches.
Matches(d, q) ==
  /\ TruthyStr(q, "search") =>
       \/ RegexMatchI(d.customerName, q.search)
       \/ RegexMatchI(d.email, q.search)
       \/ RegexMatchI(d.phone, q.search)
  /\ TruthyStr(q, "status") => d.status = q.status

Matching(coll, q) == {j \in DOMAIN coll : Matches(coll[j], q)}

\* The orders .sort(sort) may return the matching identities in: documents
\* with equal sort keys come in any order.
SortedIds(coll, q) ==
  LET ids == Matching(coll, q)
      n == Cardinality(ids)
      key(j) == SortDir(q) * coll[j][SortBy(q)]
  IN  {s \in [1..n -> ids] :
         /\ \A a, b \in 1..n : a # b => s[a] # s[b]
         /\ \A a, b \in 1..n : a < b => key(s[a]) <= key(s[b])}

\* .skip(skip).limit(limitNum) of a sorted result.
Page(s, skip, limitNum) == SubSeq(s, skip + 1, Min(Len(s), skip + limitNum))

\* Lines 8-44: the query parameters and the find query.
GetAllCustomersFind(r, q) ==
  /\ CanStart(r)
  /\ started' = started + 1
  /\ \E s \in SortedIds(customers, q) :
       LET page == Page(s, Skip(PageNum(q), LimitNum(q)), LimitNum(q)) IN
       reqs' = [reqs EXCEPT ![r] =
                  [pc |-> "list_count", query |-> q,
                   found |-> [i \in 1..Len(page) |-> customers[page[i]]],
                   \* history: how many documents matched when find ran
                   matched |-> Len(s)]]
  /\ UNCHANGED <<customers, nextId, now, resp, others>>

\* Lines 46-55: the count query and the response.
GetAllCustomersCount(r) ==
  /\ reqs[r].pc = "list_count"
  /\ LET total == Cardinality(Matching(customers, reqs[r].query)) IN
     resp' = [op |-> "getAllCustomers", code |-> 200, success |-> TRUE,
              count |-> Len(reqs[r].found), total |-> total,
              page |-> PageNum(reqs[r].query),
              pages |-> Ceil(total, LimitNum(reqs[r].query)),
              data |-> reqs[r].found]
  /\ reqs' = [reqs EXCEPT ![r] = Idle]
  /\ UNCHANGED <<customers, nextId, now, started, others>>

(***************************************************************************)
(* getCustomerSummary: GET /api/customers/summary                          *)
(***************************************************************************)
Timeframe(q) == IF Has(q, "timeframe") THEN q.timeframe ELSE "week"

\* Lines 105-121: the days between startDate and today.  The clock counts
\* days and carries no calendar, so setMonth(getMonth() - 1) goes back by the
\* length of some month (the shortest and the longest are taken) and
\* setFullYear(getFullYear() - 1) by that of a year.
Lookbacks(timeframe) ==
  CASE toLowerCase(timeframe) = "week" -> {Week}
    [] toLowerCase(timeframe) = "month" -> {28, 31}
    [] toLowerCase(timeframe) = "year" -> {365}
    [] OTHER -> {Week}

\* Lines 130-165: the ten storage queries, in the order the handler awaits them.
SummaryQuery(k, coll, startDate, previousStartDate) ==
  LET count(P(_)) == Cardinality({j \in DOMAIN coll : P(coll[j])})
      all(d) == TRUE
      active(d) == d.status = "active"
      inactive(d) == d.status = "inactive"
      new(d) == d.customerSince >= startDate
      purchasing(d) == d.ordersCount > 0
      prevAll(d) == d.customerSince < startDate
      prevActive(d) == d.status = "active" /\ d.customerSince < startDate
      prevInactive(d) == d.status = "inactive" /\ d.customerSince < startDate
      prevNew(d) == d.customerSince >= previousStartDate /\ d.customerSince < startDate
  IN  CASE k = 1 -> count(all)
        [] k = 2 -> count(active)
        [] k = 3 -> count(inactive)
        [] k = 4 -> count(new)
        [] k = 5 -> count(purchasing)
        \* $group with $sum, then totalAbandonedCarts[0]?.total || 0 (line 204)
        [] k = 6 -> SumOver(DOMAIN coll, [j \in DOMAIN coll |-> coll[j].abandonedCarts])
        [] k = 7 -> count(prevAll)
        [] k = 8 -> count(prevActive)
        [] k = 9 -> count(prevInactive)
        [] k = 10 -> count(prevNew)

\* Number.prototype.toFixed(2) of (current - previous) / previous * 100, for
\* previous > 0: the sign of the value, then the nearest number of hundredths
\* (the larger one of two equally near).
toFixed2(current, previous) ==
  LET num == (current - previous) * 100
      mag == IF num < 0 THEN -num ELSE num
      n == (2 * mag * 100 + previous) \div (2 * previous)
  IN  (IF num < 0 THEN "-" ELSE "")
        \o IntToString(n \div 100) \o "."
        \o IntToString((n % 100) \div 10) \o IntToString(n % 10)

\* A calculateChange that forgets the rise from nothing.
calculateChangeFlat(current, previous) ==
  IF previous = 0 THEN [kind |-> "number", n |-> 0]
  ELSE [kind |-> "string", s |-> toFixed2(current, previous)]

\* Lines 168-171: a number when previous is 0, else the string toFixed returns.
calculateChange(current, previous) ==
  IF previous = 0 THEN [kind |-> "number", n |-> IF current > 0 THEN 100 ELSE 0]
  ELSE [kind |-> "string", s |-> toFixed2(current, previous)]

\* x >= 0 for a string x: the string is converted to a number, and "-0.00"
\* converts to -0, which is >= 0.
StringGE0(s) ==
  SubSeq(s, 1, 1) = "-" => \A i \in 2..Len(s) : SubSeq(s, i, i) \in {"0", "."}

\* Lines 185-197: `${x >= 0 ? '+' : ''}${x}%`.
ChangeText(x) ==
  IF x.kind = "number"
  THEN (IF x.n >= 0 THEN "+" ELSE "") \o IntToString(x.n) \o "%"
  ELSE (IF StringGE0(x.s) THEN "+" ELSE "") \o x.s \o "%"

Null == [null |-> TRUE]

\* Lines 99-130: the dates, and the first count query.
GetCustomerSummaryStart(r, q) ==
  /\ CanStart(r)
  \* summaries only read, so two of them do not affect each other: one at a time
  /\ \A other \in Slots : reqs[other].pc # "summary"
  /\ started' = started + 1
  /\ \E days \in Lookbacks(Timeframe(q)) :
       LET startDate == now - days
           \* periodDays = floor((today - startDate) / one day)
           periodDays == now - startDate
           previousStartDate == startDate - periodDays
       IN  reqs' = [reqs EXCEPT ![r] =
                      [pc |-> "summary", timeframe |-> Timeframe(q),
                       startDate |-> startDate, previousStartDate |-> previousStartDate,
                       counts |-> <<SummaryQuery(1, customers, startDate, previousStartDate)>>,
                       \* history: the collection the first query saw, and whether
                       \* the queries for the counted values all saw that collection
                       seen |-> customers, undisturbed |-> TRUE]]
  /\ UNCHANGED <<customers, nextId, now, resp, others>>

\* Lines 131-159: the next count query, the second to the ninth.
GetCustomerSummaryQuery(r) ==
  /\ reqs[r].pc = "summary"
  /\ Len(reqs[r].counts) < 9
  /\ LET k == Len(reqs[r].counts) + 1 IN
     reqs' = [reqs EXCEPT
                ![r].counts = Append(@, SummaryQuery(k, customers, reqs[r].startDate,
                                                     reqs[r].previousStartDate)),
                ![r].undisturbed = @ /\ (k <= 4 => customers = reqs[r].seen),
                ![r].seen = IF k >= 4 THEN << >> ELSE @]
  /\ UNCHANGED <<customers, nextId, now, started, resp, others>>

\* Lines 160-209: the last count query, the changes and the response.
GetCustomerSummaryRespond(r) ==
  /\ reqs[r].pc = "summary"
  /\ Len(reqs[r].counts) = 9
  /\ LET c == reqs[r].counts
         prevNewCustomers == SummaryQuery(10, customers, reqs[r].startDate,
                                          reqs[r].previousStartDate)
     IN  resp' =
           [op |-> "getCustomerSummary", code |-> 200, success |-> TRUE,
            timeframe |-> reqs[r].timeframe,
            undisturbed |-> reqs[r].undisturbed,
            metrics |->
              [allCustomers |->
                 [value |-> c[1], change |-> ChangeText(calculateChange(c[1], c[7]))],
               activeCustomers |->
                 [value |-> c[2], change |-> ChangeText(calculateChange(c[2], c[8]))],
               inactiveCustomers |->
                 [value |-> c[3], change |-> ChangeText(calculateChange(c[3], c[9]))],
               newCustomers |->
                 [value |-> c[4],
                  change |-> ChangeText(calculateChange(c[4], prevNewCustomers))],
               purchasingCustomers |-> [value |-> c[5], change |-> Null],
               abandonedCarts |-> [value |-> c[6], change |-> Null]]]
  /\ reqs' = [reqs EXCEPT ![r] = Idle]
  /\ UNCHANGED <<customers, nextId, now, started, others>>

(***************************************************************************)
(* The customer write handlers, interleaved.                               *)
(***************************************************************************)
Next ==
  \/ \E r \in Slots, body \in CreateBodies : CreateCustomerFind(r, body)
  \/ \E r \in Slots : CreateCustomerWrite(r)
  \/ \E r \in Slots, id \in Ids, body \in UpdateBodies : UpdateCustomerFind(r, id, body)
  \/ \E r \in Slots : UpdateCustomerCheckEmail(r)
  \/ \E r \in Slots : UpdateCustomerSave(r)
  \/ \E r \in Slots, id \in Ids, body \in StatusBodies : UpdateCustomerStatusFind(r, id, body)
  \/ \E r \in Slots : UpdateCustomerStatusSave(r)
  \/ \E r \in Slots, id \in Ids : DeleteCustomerFind(r, id)
  \/ \E r \in Slots : DeleteCustomerRemove(r)
  \/ Tick

Spec == Init /\ [][Next]_vars

\* The list handler, interleaved with the requests that create a customer,
\* change a status and delete a customer.
NextList ==
  \/ \E r \in Slots, q \in ListQueries : GetAllCustomersFind(r, q)
  \/ \E r \in Slots : GetAllCustomersCount(r)
  \/ \E r \in Slots, body \in SummaryCreateBodies : CreateCustomerFind(r, body)
  \/ \E r \in Slots : CreateCustomerWrite(r)
  \/ \E r \in Slots, id \in Ids, body \in SummaryStatusBodies :
        UpdateCustomerStatusFind(r, id, body)
  \/ \E r \in Slots : UpdateCustomerStatusSave(r)
  \/ \E r \in Slots, id \in Ids : DeleteCustomerFind(r, id)
  \/ \E r \in Slots : DeleteCustomerRemove(r)

SpecList == Init /\ [][NextList]_vars

\* The summary handler, interleaved with the requests that create a
\* customer, change a status and delete a customer.
NextSummary ==
  \/ \E r \in Slots, q \in SummaryQueries : GetCustomerSummaryStart(r, q)
  \/ \E r \in Slots : GetCustomerSummaryQuery(r)
  \/ \E r \in Slots : GetCustomerSummaryRespond(r)
  \/ \E r \in Slots, body \in SummaryCreateBodies : CreateCustomerFind(r, body)
  \/ \E r \in Slots : CreateCustomerWrite(r)
  \/ \E r \in Slots, id \in Ids, body \in SummaryStatusBodies :
        UpdateCustomerStatusFind(r, id, body)
  \/ \E r \in Slots : UpdateCustomerStatusSave(r)
  \/ \E r \in Slots, id \in Ids : DeleteCustomerFind(r, id)
  \/ \E r \in Slots : DeleteCustomerRemove(r)

SpecSummary == Init /\ [][NextSummary]_vars

(***************************************************************************)
(* The change string of the summary, as a function of its two counts.      *)
(***************************************************************************)
\* The counts a change is rendered for: the small ones, those of the
\* examples, and two large ones one apart.
Counts == 0..MaxCount \cup {40, 50, 75, 80, 29999, 30000}

InitChange ==
  /\ customers = << >>
  /\ nextId = 1
  /\ now = StartDay
  /\ reqs = [r \in Slots |-> Idle]
  /\ started = 0
  /\ resp = [op |-> "none"]
  /\ orders = << >>
  /\ change \in {[current |-> c, previous |-> p, text |-> ""] : c \in Counts, p \in Counts}

\* Lines 168-198 for one metric: calculateChange, then the template string.
RenderChange ==
  /\ change.text = ""
  /\ change' = [change EXCEPT
                  !.text = ChangeText(calculateChange(change.current, change.previous))]
  /\ UNCHANGED <<customers, nextId, now, reqs, started, resp, orders>>

NextChange == RenderChange

SpecChange == InitChange /\ [][NextChange]_vars

(***************************************************************************)
(* The Order schema (models/Order.js) and the save of a new order.         *)
(***************************************************************************)
\* The documents handed to new Order(doc).save().
OrderDocs ==
  { [customerName |-> "Jane Smith", orderTotal |-> 250, trackingId |-> "ORD-123456"],
    [customerName |-> "Jane Smith", orderTotal |-> 250],
    [customerName |-> "John Doe", orderTotal |-> 1250, trackingId |-> " ord-abc123-xyz ",
     orderType |-> "phone", action |-> "processing", status |-> "completed"],
    [customerName |-> "Ann", orderTotal |-> 0, trackingId |-> "ord-123456"],
    [customerName |-> "Ann", orderTotal |-> 10, trackingId |-> ""],
    [customerName |-> "Bob", orderTotal |-> 10, trackingId |-> "t-1", action |-> "shipped"],
    [customerName |-> "Bob", orderTotal |-> 20, trackingId |-> "T-2", status |-> "inactive"],
    [customerName |-> "Cy", orderTotal |-> -5, trackingId |-> "T-3"],
    [customerName |-> "Cy", orderTotal |-> 5, trackingId |-> "T-3", orderType |-> "fax"] }

\* Math.random().toString(36).substr(2, 5): up to five characters.
RandomSuffixes == {"k3x9q", "07azz", ""}

OrderTypeEnum == {"online", "offline", "phone", "email"}
OrderActionEnum == {"pending", "processing", "shipped", "delivered", "cancelled", "returned"}
OrderStatusEnum == {"active", "inactive", "completed"}

\* Lines 3-73: the document new Order(doc) builds: the setters (trim,
\* uppercase) on the paths given, the defaults on those not given.  A path
\* that was not given and has no default is absent.
NewOrder(doc, today) ==
  [f \in DOMAIN doc |->
     IF f = "customerName" THEN trim(doc[f])
     ELSE IF f = "trackingId" THEN toUpperCase(trim(doc[f]))
     ELSE doc[f]]
  @@ [orderDate |-> today, orderType |-> "online", action |-> "pending",
      status |-> "active"]

\* The required validator: an absent path and the empty string fail it.
Missing(o, f) == IF Has(o, f) THEN o[f] = "" ELSE TRUE

\* The paths of an order that fail the schema's validators.
OrderValidationErrors(o) ==
     (IF Missing(o, "customerName") THEN {"customerName"}
      ELSE IF Len(o.customerName) > 100 THEN {"customerName"} ELSE {})
  \cup (IF o.orderType \notin OrderTypeEnum THEN {"orderType"} ELSE {})
  \cup (IF Missing(o, "trackingId") THEN {"trackingId"} ELSE {})
  \cup (IF ~Has(o, "orderTotal") THEN {"orderTotal"}
        ELSE IF o.orderTotal < 0 THEN {"orderTotal"} ELSE {})
  \cup (IF o.action \notin OrderActionEnum THEN {"action"} ELSE {})
  \cup (IF o.status \notin OrderStatusEnum THEN {"status"} ELSE {})

\* Lines 76-84: the pre('save') hook.
PreSave(o, today, random) ==
  IF Missing(o, "trackingId")
  THEN [trackingId |-> toUpperCase("ORD-" \o ToString36(today) \o "-" \o random)] @@ o
  ELSE o

\* unique: true on trackingId.
TrackingIdTaken(coll, trackingId) ==
  \E i \in 1..Len(coll) : coll[i].trackingId = trackingId

\* document.save() of a new order: the built-in validation hook runs first,
\* then the schema's pre('save') hook, then the insert.
SaveOrder(doc) ==
  /\ Len(orders) < MaxOrders
  /\ \E random \in RandomSuffixes :
       LET o == NewOrder(doc, now) IN
       IF OrderValidationErrors(o) # {}
       THEN /\ resp' = [op |-> "Order.save", error |-> "ValidationError",
                        paths |-> OrderValidationErrors(o)]
            /\ UNCHANGED orders
       ELSE LET saved == PreSave(o, now, random) IN
            IF TrackingIdTaken(orders, saved.trackingId)
            THEN /\ resp' = [op |-> "Order.save", error |-> "E11000", paths |-> {}]
                 /\ UNCHANGED orders
            ELSE /\ resp' = [op |-> "Order.save", error |-> "none", paths |-> {}]
                 /\ orders' = Append(orders, Stamp(saved, now, now))
  /\ UNCHANGED <<customers, nextId, now, reqs, started, change>>

NextOrder == \E doc \in OrderDocs : SaveOrder(doc)

SpecOrder == Init /\ [][NextOrder]_vars

(***************************************************************************)
(* Properties of the customer write handlers.                              *)
(***************************************************************************)
Stored == DOMAIN customers

\* C1: no two stored customers have the same email, in every reachable state
\* of the interleaved create, update, status and delete requests.
EmailUnique ==
  \A i \in Stored, j \in Stored : i # j => customers[i].email # customers[j].email

\* C1 witness: a PUT that changed an email lost the race against a create of
\* the same email and was refused by the index, with two customers stored.
EmailUniqueWitness ==
  /\ resp.op = "updateCustomer"
  /\ resp.path = "E11000"
  /\ Cardinality(Stored) = 2

EmailStored(email) == \E j \in Stored : customers[j].email = toLowerCase(email)

\* C2: a createCustomer whose email is already stored, at the pre-check or at
\* the write, is answered 400 with success=false and leaves the collection as
\* it was; the answer is never 201 or 500.
CreateDuplicateRefused ==
  [][\A r \in Slots :
       /\ \A body \in CreateBodies :
            (CreateCustomerFind(r, body)
               /\ TruthyStr(body, "customerName") /\ TruthyStr(body, "email")
               /\ TruthyStr(body, "phone") /\ EmailStored(body.email)
               => resp'.code = 400 /\ ~resp'.success /\ customers' = customers)
       /\ (CreateCustomerWrite(r) /\ EmailStored(reqs[r].body.email)
             => resp'.code = 400 /\ ~resp'.success /\ customers' = customers)]_vars

\* The part of C2 that holds: as C2, for the bodies the schema accepts.
CreateDuplicateRefusedIfValid ==
  [][\A r \in Slots :
       (CreateCustomerWrite(r) /\ EmailStored(reqs[r].body.email)
          /\ ValidationErrors(ApplySetters(customerData(reqs[r].body, now))) = {}
          => resp'.code = 400 /\ ~resp'.success /\ customers' = customers)]_vars

InvalidStatusBody(body) == ~TruthyStr(body, "status") \/ body.status \notin StatusEnum

\* The fields of stored customer j that the step leaves as they were, all of
\* them unless j = id and the field is one of `except`.
FrameHolds(id, except) ==
  /\ DOMAIN customers' = Stored
  /\ \A j \in Stored : \A k \in DOMAIN customers[j] :
       (j # id \/ k \notin except) => customers'[j][k] = customers[j][k]

\* C5 as stated: the status patch of a stored customer changes that customer's
\* status and nothing else; an invalid status is answered 400 before any lookup
\* and changes nothing.
StatusPatchChangesOnlyStatus ==
  [][\A r \in Slots :
       /\ (UpdateCustomerStatusSave(r) => FrameHolds(reqs[r].id, {"status"}))
       /\ \A id \in Ids, body \in StatusBodies :
            (UpdateCustomerStatusFind(r, id, body) /\ InvalidStatusBody(body)
               => resp'.code = 400 /\ customers' = customers /\ reqs' = reqs)]_vars

\* C5 amended: the status patch of a stored customer is answered 200 and
\* changes only that customer's status and its updatedAt timestamp; an invalid
\* status is answered 400 before any lookup and changes nothing.
StatusPatchFrame ==
  [][\A r \in Slots :
       /\ (UpdateCustomerStatusSave(r)
             => /\ FrameHolds(reqs[r].id, {"status", "updatedAt"})
                /\ reqs[r].id \in Stored => resp'.code = 200)
       /\ \A id \in Ids, body \in StatusBodies :
            (UpdateCustomerStatusFind(r, id, body) /\ InvalidStatusBody(body)
               => resp'.code = 400 /\ customers' = customers /\ reqs' = reqs)]_vars

\* C5 witness: a status patch turned a customer created active into an
\* inactive one, at a later time than its creation.
StatusPatchWitness ==
  /\ resp.op = "updateCustomerStatus"
  /\ resp.code = 200
  /\ \E j \in Stored :
       /\ customers[j].customerName = "Ann"
       /\ customers[j].status = "inactive"
       /\ customers[j].updatedAt > customers[j].createdAt

BadFieldBody(body) ==
  \/ TruthyStr(body, "status") /\ body.status \notin StatusEnum
  \/ Has(body, "ordersCount") /\ body.ordersCount < 0
  \/ Has(body, "orderTotal") /\ body.orderTotal < 0
  \/ Has(body, "abandonedCarts") /\ body.abandonedCarts < 0

\* C7: a create or a PUT whose body has a status outside {active, inactive} or
\* a negative ordersCount, orderTotal or abandonedCarts is answered 400, never
\* 500, and stores nothing.
InvalidBodyAnswered400 ==
  [][\A r \in Slots :
       (CreateCustomerWrite(r) \/ UpdateCustomerSave(r)) /\ BadFieldBody(reqs[r].body)
          => resp'.code = 400 /\ customers' = customers]_vars

(***************************************************************************)
(* Properties of the list handler.                                         *)
(***************************************************************************)
\* The count the claim gives for N matching records, page p and limit l.
PageCount(n, p, l) == Min(l, Max(0, n - (p - 1) * l))

\* C8 as stated: every response has page = p, total = N, pages = ceil(N / l)
\* and count = number of returned records = min(l, max(0, N - (p-1)*l)) for
\* one N, the number of records matching the filter.
ListCountMatchesTotal ==
  [][\A r \in Slots :
       GetAllCustomersCount(r) =>
         LET q == reqs[r].query IN
         /\ resp'.total = Cardinality(Matching(customers, q))
         /\ resp'.page = PageNum(q)
         /\ resp'.pages = Ceil(resp'.total, LimitNum(q))
         /\ resp'.count = Len(resp'.data)
         /\ resp'.count = PageCount(resp'.total, PageNum(q), LimitNum(q))]_vars

\* The claim's example, by the handler's arithmetic: page 2 of 25 records at
\* limit 10 holds 10 records, and there are 3 pages.
ListExample ==
  /\ Len(Page([i \in 1..25 |-> i], Skip(2, 10), 10)) = 10
  /\ Ceil(25, 10) = 3

\* C8 amended: total and pages are those of the records matching when the
\* count query runs, count is that of the records matching when the find
\* query ran; the two are the same N when no write changed the matching
\* records in between.
ListCountPerQuery ==
  [][/\ ListExample
     /\ \A r \in Slots :
          GetAllCustomersCount(r) =>
            LET q == reqs[r].query IN
            /\ resp'.total = Cardinality(Matching(customers, q))
            /\ resp'.page = PageNum(q)
            /\ resp'.pages = Ceil(resp'.total, LimitNum(q))
            /\ resp'.count = Len(resp'.data)
            /\ resp'.count = PageCount(reqs[r].matched, PageNum(q), LimitNum(q))
            /\ reqs[r].matched = resp'.total
                 => resp'.count = PageCount(resp'.total, PageNum(q), LimitNum(q))]_vars

\* C8 witness: the second page, at limit 1, of two stored customers.
ListWitness ==
  /\ resp.op = "getAllCustomers"
  /\ resp.page = 2 /\ resp.pages = 2 /\ resp.total = 2 /\ resp.count = 1

(***************************************************************************)
(* Properties of the summary handler.                                      *)
(***************************************************************************)
ChangeMetrics == {"allCustomers", "activeCustomers", "inactiveCustomers", "newCustomers"}

\* The (current, previous) pair behind each change of the response that the
\* step GetCustomerSummaryRespond(r) sends.
SummaryPair(r, m) ==
  LET c == reqs[r].counts IN
  CASE m = "allCustomers" -> <<c[1], c[7]>>
    [] m = "activeCustomers" -> <<c[2], c[8]>>
    [] m = "inactiveCustomers" -> <<c[3], c[9]>>
    [] m = "newCustomers" ->
         <<c[4], SummaryQuery(10, customers, reqs[r].startDate, reqs[r].previousStartDate)>>

\* The change of every metric whose previous count is 0: `zero` when its
\* current count is 0 too, "+100%" when it is positive.
ZeroBaseChanges(zero) ==
  \A r \in Slots :
    GetCustomerSummaryRespond(r) =>
      \A m \in ChangeMetrics :
        LET pair == SummaryPair(r, m) IN
        pair[2] = 0 =>
          /\ pair[1] = 0 => resp'.metrics[m].change = zero
          /\ pair[1] > 0 => resp'.metrics[m].change = "+100%"

\* C3 as stated: with previous = 0 the change string is "0%" when current = 0
\* and "+100%" when current > 0, for every metric that reports a change.
ZeroBaseChangeUnsigned == [][ZeroBaseChanges("0%")]_vars

\* C3 amended: with previous = 0 the change string is "+0%" when current = 0
\* and "+100%" when current > 0, for every metric that reports a change.
ZeroBaseChangeSigned == [][ZeroBaseChanges("+0%")]_vars

\* C3 witness: a summary of one customer, active and new: all customers rose
\* from 0 to 1, inactive customers stayed at 0.
ZeroBaseWitness ==
  /\ resp.op = "getCustomerSummary"
  /\ resp.metrics.allCustomers.value = 1
  /\ resp.metrics.allCustomers.change = "+100%"
  /\ resp.metrics.inactiveCustomers.value = 0
  /\ resp.metrics.inactiveCustomers.change = "+0%"

SummaryCountsAgree(m) ==
  /\ m.allCustomers.value = m.activeCustomers.value + m.inactiveCustomers.value
  /\ m.newCustomers.value <= m.allCustomers.value

\* C10 as stated: in every summary response allCustomers = activeCustomers +
\* inactiveCustomers and newCustomers <= allCustomers, also when other
\* requests write between the summary's count queries.
SummaryIsSnapshot ==
  resp.op = "getCustomerSummary" => SummaryCountsAgree(resp.metrics)

\* C10 amended: allCustomers = activeCustomers + inactiveCustomers and
\* newCustomers <= allCustomers in every summary response whose four count
\* queries for these values saw the same collection.
SummaryAgreesIfUndisturbed ==
  resp.op = "getCustomerSummary" /\ resp.undisturbed => SummaryCountsAgree(resp.metrics)

\* C10 witness: a summary of an active and an inactive customer, one of them
\* new, whose queries no write came between.
SummaryWitness ==
  /\ resp.op = "getCustomerSummary"
  /\ resp.undisturbed
  /\ resp.metrics.allCustomers.value = 2
  /\ resp.metrics.activeCustomers.value = 1
  /\ resp.metrics.inactiveCustomers.value = 1
  /\ resp.metrics.newCustomers.value = 1

(***************************************************************************)
(* Properties of the change string.                                        *)
(***************************************************************************)
\* The string the claim gives for previous > 0: the sign of the value
\* (current - previous) / previous * 100, then its size with two decimals.
SignedTwoDecimals(current, previous) ==
  LET diff == IF current >= previous THEN current - previous ELSE previous - current
      n == (2 * diff * 10000 + previous) \div (2 * previous)
  IN  (IF current >= previous THEN "+" ELSE "-")
        \o IntToString(n \div 100) \o "."
        \o IntToString((n % 100) \div 10) \o IntToString(n % 10) \o "%"

\* C4: for previous > 0 the change string is the value with exactly two
\* decimals, after "+" when it is >= 0 and after "-" when it is negative:
\* "+50.00%" for previous 50 and current 75, "-50.00%" for 80 and 40.
ChangeIsSignedTwoDecimals ==
  /\ SignedTwoDecimals(75, 50) = "+50.00%"
  /\ SignedTwoDecimals(40, 80) = "-50.00%"
  /\ change.text # "" /\ change.previous > 0
       => change.text = SignedTwoDecimals(change.current, change.previous)

\* The part of C4 that holds: as C4, for the values that do not round to
\* -0.00 (current >= previous, or a fall of at least 0.005 percent).
ChangeIsSignedTwoDecimalsUnlessTiny ==
  change.text # "" /\ change.previous > 0
    /\ (change.current >= change.previous
          \/ 2 * (change.previous - change.current) * 10000 >= change.previous)
    => change.text = SignedTwoDecimals(change.current, change.previous)

(***************************************************************************)
(* Properties of the order save.                                           *)
(***************************************************************************)
\* C9: saving a new order without a trackingId, valid otherwise, succeeds and
\* stores an order whose trackingId is uppercase, starts with "ORD-" and is
\* that of no other stored order.
OrderGetsTrackingId ==
  [][\A doc \in OrderDocs :
       SaveOrder(doc) /\ ~Has(doc, "trackingId")
         /\ OrderValidationErrors(NewOrder(doc, now)) \subseteq {"trackingId"}
         => /\ resp'.error = "none"
            /\ Len(orders') = Len(orders) + 1
            /\ LET t == orders'[Len(orders')].trackingId IN
               /\ t = toUpperCase(t)
               /\ SubSeq(t, 1, 4) = "ORD-"
               /\ \A i \in 1..Len(orders) : orders[i].trackingId # t]_vars

\* The part of C9 that holds: the stored orders' trackingIds are uppercase
\* and pairwise different.
TrackingIdsUnique ==
  \A i, j \in 1..Len(orders) :
    /\ orders[i].trackingId = toUpperCase(orders[i].trackingId)
    /\ i # j => orders[i].trackingId # orders[j].trackingId

====
